---- MODULE Spec2Model ----
(***************************************************************************)
(* pubsubc (src/main.go): reads the numbered PUBSUB_PROJECTn environment   *)
(* variables, creates the topics and subscriptions each one declares in    *)
(* the Pub/Sub service, and lists them back.                                *)
(*                                                                         *)
(* A Go string is a sequence of one-character strings.  One action is one  *)
(* step of main between two calls to the service; every call to the        *)
(* service may fail.                                                        *)
(***************************************************************************)
EXTENDS Integers, Sequences, FiniteSets, TLC

VARIABLES
    environ,        \* the process environment: index n -> value of PUBSUB_PROJECTn, for the variables that are set
    help,           \* flag -help
    version,        \* flag -version
    debug,          \* flag -debug
    pc,             \* position of main
    i,              \* loop counter of main
    exitCode,       \* -1 while running, else the exit status
    projectID,      \* parts[0] of the current variable
    topics,         \* the Topics map of the current variable
    pending,        \* keys of topics the range loop of create has not visited
    curTopic,       \* topicID of the range loop of create
    subsLeft,       \* subscription tokens of curTopic not yet created
    clients,        \* client connections that are open
    showLeft,       \* topics listed by displayResult and not yet printed
    subscriptions,  \* subscriptions listed for the topic being printed
    outer,          \* index of the outer loop over subscriptions
    inner,          \* index of the inner loop over subscriptions
    stdout,         \* lines printed to standard output
    stderr,         \* lines printed to standard error by fatalf
    svcTopics,      \* the service: topics, as <<project, topic>>
    svcSubs,        \* the service: subscriptions
    callLog         \* every call made to the service, in order

vars == <<environ, help, version, debug, pc, i, exitCode, projectID, topics,
          pending, curTopic, subsLeft, clients, showLeft, subscriptions,
          outer, inner, stdout, stderr, svcTopics, svcSubs, callLog>>

inputVars == <<environ, help, version, debug>>
createVars == <<pending, curTopic, subsLeft>>
displayVars == <<showLeft, subscriptions, outer, inner>>
svcVars == <<svcTopics, svcSubs>>

----------------------------------------------------------------------------
(* Bounds *)

\* PUBSUB_PROJECT1 .. PUBSUB_PROJECT<MaxEnvIdx> may be set
MaxEnvIdx == 3

\* longest subscription token of the decoder specification
MaxTokLen == 5

----------------------------------------------------------------------------
(* Strings *)

\* strings.Index for a one-character separator, 1-based; 0 when absent
IndexOf(s, c) ==
    IF \E k \in 1..Len(s) : s[k] = c
    THEN CHOOSE k \in 1..Len(s) : s[k] = c /\ \A j \in 1..(k-1) : s[j] # c
    ELSE 0

\* strings.Split(s, sep) for a one-character sep: always at least one piece
RECURSIVE Split(_, _)
Split(s, sep) ==
    LET k == IndexOf(s, sep)
    IN  IF k = 0 THEN <<s>>
        ELSE <<SubSeq(s, 1, k-1)>> \o Split(SubSeq(s, k+1, Len(s)), sep)

\* strings.TrimSpace
RECURSIVE TrimLeft(_)
TrimLeft(s) == IF s # <<>> /\ Head(s) = " " THEN TrimLeft(Tail(s)) ELSE s

RECURSIVE TrimRight(_)
TrimRight(s) ==
    IF s # <<>> /\ s[Len(s)] = " " THEN TrimRight(SubSeq(s, 1, Len(s)-1)) ELSE s

TrimSpace(s) == TrimRight(TrimLeft(s))

\* strings.Replace(s, old, new, 1) for one-character old and new
ReplaceFirst(s, old, new) ==
    LET k == IndexOf(s, old)
    IN  [j \in 1..Len(s) |-> IF j = k THEN new ELSE s[j]]

\* the literal "http://"
HttpPrefix == <<"h", "t", "t", "p", ":", "/", "/">>

\* parts[1:] of a slice
Rest(parts) == SubSeq(parts, 2, Len(parts))

----------------------------------------------------------------------------
(* Config parsing, main lines 202-213 *)

\* mutant of MapPut: the value is appended to the one the key already has
MapPutAppend(m, k, v) ==
    [x \in (DOMAIN m) \cup {k} |->
        IF x = k THEN (IF k \in DOMAIN m THEN m[k] \o v ELSE v) ELSE m[x]]

\* m[k] = v of a Go map: a later assignment to the same key replaces the earlier
MapPut(m, k, v) == [x \in (DOMAIN m) \cup {k} |-> IF x = k THEN v ELSE m[x]]

EmptyMap == [x \in {} |-> <<>>]

\* the loop "for _, part := range parts[1:]" filling the Topics map
RECURSIVE BuildTopics(_, _)
BuildTopics(defs, m) ==
    IF defs = <<>> THEN m
    ELSE LET topicParts == Split(Head(defs), ":")
         IN  BuildTopics(Tail(defs), MapPut(m, topicParts[1], Rest(topicParts)))

ParseTopics(parts) == BuildTopics(Rest(parts), EmptyMap)

\* os.Getenv: the empty string for a variable that is not set
Getenv(n) == IF n \in DOMAIN environ THEN environ[n] ELSE <<>>

----------------------------------------------------------------------------
(* Subscription tokens, create lines 137-146 *)

\* mutant of PushEndpoint: the second part is not trimmed
PushEndpointUntrimmed(subscription) ==
    LET subscriptionParts == Split(subscription, "+")
    IN  IF Len(subscriptionParts) > 1
        THEN ReplaceFirst(subscriptionParts[2], "|", ":")
        ELSE <<>>

PushEndpoint(subscription) ==
    LET subscriptionParts == Split(subscription, "+")
    IN  IF Len(subscriptionParts) > 1
        THEN ReplaceFirst(TrimSpace(subscriptionParts[2]), "|", ":")
        ELSE <<>>

SubscriptionID(subscription) == TrimSpace(Split(subscription, "+")[1])

\* the PushConfig.Endpoint of the subscription that create requests
EndpointOf(subscription) ==
    IF PushEndpoint(subscription) # <<>>
    THEN HttpPrefix \o PushEndpoint(subscription)
    ELSE <<>>

----------------------------------------------------------------------------
(* The service *)

TopicExists(p, t) == <<p, t>> \in svcTopics

SubExists(p, id) == \E s \in svcSubs : s.project = p /\ s.id = id

\* outcomes of CreateTopic: an existing topic is rejected, any call may fail
CreateTopicOutcomes(p, t) == IF TopicExists(p, t) THEN {FALSE} ELSE {TRUE, FALSE}

\* outcomes of CreateSubscription: ids are unique in a project
CreateSubOutcomes(p, id) == IF SubExists(p, id) THEN {FALSE} ELSE {TRUE, FALSE}

\* client.Topics: the topics of a project
TopicsOf(p) == {t \in {x[2] : x \in svcTopics} : <<p, t>> \in svcTopics}

\* client.Topic(t).Subscriptions: the subscriptions of a topic
SubsOf(p, t) == {s \in svcSubs : s.project = p /\ s.topic = t}

\* the orders in which an iterator may return the elements of a set
Orders(S) == {q \in [1..Cardinality(S) -> S] : \A x \in S : \E k \in DOMAIN q : q[k] = x}

\* the subscription with that id, as Subscription.Config reads it
ConfigOf(p, id) == CHOOSE s \in svcSubs : s.project = p /\ s.id = id

\* one entry of callLog: the call op(arg) made by function by while main handles variable i
Call(by, op, arg, ok) ==
    [idx |-> i, project |-> projectID, by |-> by, op |-> op, arg |-> arg, ok |-> ok]

----------------------------------------------------------------------------
(* Inputs *)

\* values of a PUBSUB_PROJECTn variable
EnvOnlyProject == <<"p">>
EnvTopic       == <<"p", ",", "t">>
EnvPull        == <<"p", ",", "t", ":", "a">>
EnvPush        == <<"p", ",", "u", ":", "b", "+", "h", "|", "9">>
EnvSameTopic   == <<"p", ",", "t", ":", "a", ",", "t", ":", "b", "+", "h", "|", "9">>
EnvTwoSubs     == <<"p", ",", "t", ":", "a", ":", "b">>
EnvOther       == <<"q", ",", "t", ":", "a">>
EnvEmpty       == <<>>

EnvValues == {EnvOnlyProject, EnvTopic, EnvPull, EnvPush, EnvSameTopic,
              EnvTwoSubs, EnvOther, EnvEmpty}

\* the environments: any subset of the numbered variables is set
Environments == UNION {[D -> EnvValues] : D \in SUBSET (1..MaxEnvIdx)}

\* what the service holds when the program starts: nothing, or the entities
\* an earlier run with PUBSUB_PROJECT1="p,t:a" left
OldSub == [project |-> <<"p">>, id |-> <<"a">>, topic |-> <<"t">>, endpoint |-> <<>>]

ServiceStates == { [topics |-> {}, subs |-> {}],
                   [topics |-> {<<(<<"p">>), (<<"t">>)>>}, subs |-> {OldSub}] }

\* the characters of a subscription token (the parser has removed "," and ":")
TokenChars == {"a", "h", "+", "|", " "}

Tokens == UNION {[1..n -> TokenChars] : n \in 0..MaxTokLen}

----------------------------------------------------------------------------
(* Initial state: the process starts, nothing has run *)

InitLocals ==
    /\ pc = "start"
    /\ i = 0
    /\ exitCode = -1
    /\ projectID = <<>>
    /\ topics = EmptyMap
    /\ pending = {}
    /\ curTopic = <<>>
    /\ subsLeft = <<>>
    /\ clients = {}
    /\ showLeft = {}
    /\ subscriptions = <<>>
    /\ outer = 0
    /\ inner = 0
    /\ stdout = <<>>
    /\ stderr = <<>>
    /\ callLog = <<>>

Init ==
    /\ environ \in Environments
    /\ help \in BOOLEAN
    /\ version \in BOOLEAN
    /\ debug \in BOOLEAN
    /\ \E st \in ServiceStates : svcTopics = st.topics /\ svcSubs = st.subs
    /\ InitLocals

----------------------------------------------------------------------------
(* Output *)

\* debugf: prints only under -debug
Debugf(out, line) == IF debug THEN Append(out, [kind |-> "debug", text |-> line]) ELSE out

\* fatalf: one line on standard error, then os.Exit(1); deferred calls do not run
Fatalf(msg) ==
    /\ stderr' = Append(stderr, msg)
    /\ exitCode' = 1
    /\ pc' = "exited"

UsageLine == [kind |-> "usage"]
VersionLine == [kind |-> "version"]
SubscriptionLine(id, endpoint) == [kind |-> "Subscription", id |-> id, endpoint |-> endpoint]

----------------------------------------------------------------------------
(* main, lines 170-200 *)

\* lines 177-180: -help prints the usage and returns
ShowHelp ==
    /\ pc = "start"
    /\ help
    /\ stdout' = Append(stdout, UsageLine)
    /\ exitCode' = 0
    /\ pc' = "exited"
    /\ UNCHANGED <<inputVars, i, projectID, topics, createVars, clients,
                   displayVars, stderr, svcVars, callLog>>

\* lines 182-185: -version prints the version and returns
ShowVersion ==
    /\ pc = "start"
    /\ ~help
    /\ version
    /\ stdout' = Append(stdout, VersionLine)
    /\ exitCode' = 0
    /\ pc' = "exited"
    /\ UNCHANGED <<inputVars, i, projectID, topics, createVars, clients,
                   displayVars, stderr, svcVars, callLog>>

\* line 188: i := 1
EnterLoop ==
    /\ pc = "start"
    /\ ~help
    /\ ~version
    /\ i' = 1
    /\ pc' = "loop"
    /\ UNCHANGED <<inputVars, exitCode, projectID, topics, createVars, clients,
                   displayVars, stdout, stderr, svcVars, callLog>>

\* mutant of UsageExit: the loop only breaks, as it does for a later variable
UsageExitOnlyBreaks ==
    /\ pc = "loop"
    /\ Getenv(i) = <<>>
    /\ i = 1
    /\ exitCode' = 0
    /\ pc' = "exited"
    /\ UNCHANGED <<inputVars, i, projectID, topics, createVars, clients,
                   displayVars, stdout, stderr, svcVars, callLog>>

\* lines 192-197: PUBSUB_PROJECT1 is empty
UsageExit ==
    /\ pc = "loop"
    /\ Getenv(i) = <<>>
    /\ i = 1
    /\ stdout' = Append(stdout, UsageLine)
    /\ exitCode' = 1
    /\ pc' = "exited"
    /\ UNCHANGED <<inputVars, i, projectID, topics, createVars, clients,
                   displayVars, stderr, svcVars, callLog>>

\* lines 192-199: a later variable is empty; the loop ends and main returns
LoopBreak ==
    /\ pc = "loop"
    /\ Getenv(i) = <<>>
    /\ i # 1
    /\ exitCode' = 0
    /\ pc' = "exited"
    /\ UNCHANGED <<inputVars, i, projectID, topics, createVars, clients,
                   displayVars, stdout, stderr, svcVars, callLog>>

\* mutant of ConfigError: the value is taken as a project without topics
ConfigErrorContinues ==
    /\ pc = "loop"
    /\ Getenv(i) # <<>>
    /\ Len(Split(Getenv(i), ",")) < 2
    /\ projectID' = Split(Getenv(i), ",")[1]
    /\ topics' = EmptyMap
    /\ pc' = "create_connect"
    /\ UNCHANGED <<inputVars, i, exitCode, createVars, clients,
                   displayVars, stdout, stderr, svcVars, callLog>>

\* lines 203-206: fewer than two comma-separated parts
ConfigError ==
    /\ pc = "loop"
    /\ Getenv(i) # <<>>
    /\ Len(Split(Getenv(i), ",")) < 2
    /\ Fatalf([kind |-> "ConfigError", idx |-> i])
    /\ UNCHANGED <<inputVars, i, projectID, topics, createVars, clients,
                   displayVars, stdout, svcVars, callLog>>

\* lines 203-216: the variable is split into the project and the Topics map
Parse ==
    /\ pc = "loop"
    /\ Getenv(i) # <<>>
    /\ LET parts == Split(Getenv(i), ",")
       IN  /\ Len(parts) >= 2
           /\ projectID' = parts[1]
           /\ topics' = ParseTopics(parts)
    /\ pc' = "create_connect"
    /\ UNCHANGED <<inputVars, i, exitCode, createVars, clients,
                   displayVars, stdout, stderr, svcVars, callLog>>

----------------------------------------------------------------------------
(* create, lines 120-168, and its call in main, lines 216-218 *)

CreateClient == <<"create", i>>
DisplayClient == <<"displayResult", i>>

\* mutant of CloseClient: the connection stays open
CloseClientLeak(c) == clients

\* client.Close
CloseClient(c) == clients \ {c}

\* mutant of CreateFails: what create made for the project is deleted again
CreateFailsRollback(msg) ==
    /\ clients' = clients \ {CreateClient}
    /\ Fatalf(msg)
    /\ svcTopics' = {x \in svcTopics : x[1] # projectID}
    /\ svcSubs' = {x \in svcSubs : x.project # projectID}

\* mutant of CreateFails: main drops the error of create and goes on
CreateFailsNotFatal(msg) ==
    /\ clients' = clients \ {CreateClient}
    /\ pc' = "display_connect"
    /\ UNCHANGED <<exitCode, stderr, svcVars>>

\* create returns an error: the deferred Close runs, then main calls fatalf.
\* Nothing is deleted from the service.
CreateFails(msg) ==
    /\ clients' = CloseClient(CreateClient)
    /\ Fatalf(msg)
    /\ UNCHANGED svcVars

\* lines 121-127
CreateNewClient ==
    /\ pc = "create_connect"
    /\ \E ok \in BOOLEAN :
         /\ callLog' = Append(callLog, Call("create", "NewClient", projectID, ok))
         /\ IF ok
            THEN /\ clients' = clients \cup {CreateClient}
                 /\ stdout' = Debugf(stdout, <<"Client connected", projectID>>)
                 /\ pending' = DOMAIN topics
                 /\ pc' = "create_topic"
                 /\ UNCHANGED <<exitCode, stderr, svcVars>>
            ELSE /\ Fatalf([kind |-> "ConnectError", idx |-> i])
                 /\ UNCHANGED <<clients, stdout, pending, svcVars>>
    /\ UNCHANGED <<inputVars, i, projectID, topics, curTopic, subsLeft, displayVars>>

\* lines 129-134: the range loop takes a key of the map, in any order, and
\* asks the service for the topic
CreateTopicStep ==
    /\ pc = "create_topic"
    /\ \E topicID \in pending : \E ok \in CreateTopicOutcomes(projectID, topicID) :
         /\ stdout' = Debugf(stdout, <<"Creating topic", topicID>>)
         /\ callLog' = Append(callLog, Call("create", "CreateTopic", topicID, ok))
         /\ IF ok
            THEN /\ svcTopics' = svcTopics \cup {<<projectID, topicID>>}
                 /\ pending' = pending \ {topicID}
                 /\ curTopic' = topicID
                 /\ subsLeft' = topics[topicID]
                 /\ pc' = IF topics[topicID] = <<>> THEN "create_topic" ELSE "create_sub"
                 /\ UNCHANGED <<exitCode, stderr, clients, svcSubs>>
            ELSE /\ CreateFails([kind |-> "CreateError", idx |-> i])
                 /\ UNCHANGED <<pending, curTopic, subsLeft>>
    /\ UNCHANGED <<inputVars, i, projectID, topics, displayVars>>

\* lines 136-164: the next subscription token of the topic is decoded and
\* the push or pull subscription is requested
CreateSubscriptionStep ==
    /\ pc = "create_sub"
    /\ LET subscription == Head(subsLeft)
           subscriptionID == SubscriptionID(subscription)
           endpoint == EndpointOf(subscription)
       IN  \E ok \in CreateSubOutcomes(projectID, subscriptionID) :
             /\ stdout' = Debugf(stdout, <<"Creating subscription", subscriptionID, endpoint>>)
             /\ callLog' = Append(callLog,
                    Call("create", "CreateSubscription",
                         [id |-> subscriptionID, topic |-> curTopic, endpoint |-> endpoint], ok))
             /\ IF ok
                THEN /\ svcSubs' = svcSubs \cup
                          {[project |-> projectID, id |-> subscriptionID,
                            topic |-> curTopic, endpoint |-> endpoint]}
                     /\ subsLeft' = Tail(subsLeft)
                     /\ pc' = IF Tail(subsLeft) = <<>> THEN "create_topic" ELSE "create_sub"
                     /\ UNCHANGED <<exitCode, stderr, clients, svcTopics>>
                ELSE /\ CreateFails([kind |-> "CreateError", idx |-> i])
                     /\ UNCHANGED subsLeft
    /\ UNCHANGED <<inputVars, i, projectID, topics, pending, curTopic, displayVars>>

\* line 167, then line 220: every topic is done, create returns nil, the
\* deferred Close runs and main calls displayResult
CreateReturn ==
    /\ pc = "create_topic"
    /\ pending = {}
    /\ clients' = CloseClient(CreateClient)
    /\ pc' = "display_connect"
    /\ UNCHANGED <<inputVars, i, exitCode, projectID, topics, createVars,
                   displayVars, stdout, stderr, svcVars, callLog>>

----------------------------------------------------------------------------
(* displayResult, lines 47-81 *)

\* displayResult returns: the deferred Close runs and the loop of main goes on
DisplayReturns ==
    /\ clients' = CloseClient(DisplayClient)
    /\ i' = i + 1
    /\ pc' = "loop"

\* lines 49-53: when NewClient fails displayResult returns, and prints nothing
DisplayNewClient ==
    /\ pc = "display_connect"
    /\ \E ok \in BOOLEAN :
         /\ callLog' = Append(callLog, Call("displayResult", "NewClient", projectID, ok))
         /\ IF ok
            THEN /\ clients' = clients \cup {DisplayClient}
                 /\ pc' = "display_list"
                 /\ UNCHANGED i
            ELSE /\ i' = i + 1
                 /\ pc' = "loop"
                 /\ UNCHANGED clients
    /\ UNCHANGED <<inputVars, exitCode, projectID, topics, createVars,
                   displayVars, stdout, stderr, svcVars>>

\* lines 55-59 and 100-116
ListTopics ==
    /\ pc = "display_list"
    /\ \E ok \in BOOLEAN :
         /\ callLog' = Append(callLog, Call("displayResult", "Topics", projectID, ok))
         /\ IF ok
            THEN /\ showLeft' = TopicsOf(projectID)
                 /\ pc' = "display_topic"
                 /\ UNCHANGED <<exitCode, stderr>>
            ELSE /\ Fatalf([kind |-> "ListError", idx |-> i])
                 /\ UNCHANGED showLeft
    /\ UNCHANGED <<inputVars, i, projectID, topics, createVars, clients,
                   subscriptions, outer, inner, stdout, svcVars>>

\* lines 61-68 and 83-98: the subscriptions of the next listed topic
ListSubscriptions ==
    /\ pc = "display_topic"
    /\ \E topic \in showLeft : \E ok \in BOOLEAN :
         /\ callLog' = Append(callLog, Call("displayResult", "Subscriptions", topic, ok))
         /\ IF ok
            THEN /\ \E subs \in Orders({s.id : s \in SubsOf(projectID, topic)}) :
                      /\ subscriptions' = subs
                      /\ pc' = IF subs = <<>> THEN "display_topic" ELSE "display_sub"
                 /\ showLeft' = showLeft \ {topic}
                 /\ stdout' = Debugf(stdout, <<"Topic", topic>>)
                 /\ outer' = 1
                 /\ inner' = 1
                 /\ UNCHANGED <<exitCode, stderr>>
            ELSE /\ Fatalf([kind |-> "ListError", idx |-> i])
                 /\ UNCHANGED <<displayVars, stdout>>
    /\ UNCHANGED <<inputVars, i, projectID, topics, createVars, clients, svcVars>>

\* lines 69-79: the body of the inner loop for subscriptions[inner], inside
\* the outer loop at subscriptions[outer]; when the inner loop ends the
\* outer loop prints its debug line and moves on
SubscriptionConfig ==
    /\ pc = "display_sub"
    /\ LET sub == subscriptions[inner]
           n == Len(subscriptions)
       IN  \E ok \in BOOLEAN :
             /\ callLog' = Append(callLog, Call("displayResult", "Config", sub, ok))
             /\ IF ok
                THEN LET line == SubscriptionLine(sub, ConfigOf(projectID, sub).endpoint)
                     IN  /\ stdout' = IF inner < n
                                      THEN Append(stdout, line)
                                      ELSE Debugf(Append(stdout, line),
                                                  <<"Subscription", subscriptions[outer]>>)
                         /\ inner' = IF inner < n THEN inner + 1 ELSE 1
                         /\ outer' = IF inner < n THEN outer ELSE outer + 1
                         /\ pc' = IF inner = n /\ outer = n THEN "display_topic" ELSE "display_sub"
                         /\ UNCHANGED <<exitCode, stderr>>
                ELSE /\ Fatalf([kind |-> "ListError", idx |-> i])
                     /\ UNCHANGED <<outer, inner, stdout>>
    /\ UNCHANGED <<inputVars, i, projectID, topics, createVars, clients,
                   showLeft, subscriptions, svcVars>>

\* line 81: every listed topic is printed
DisplayReturn ==
    /\ pc = "display_topic"
    /\ showLeft = {}
    /\ DisplayReturns
    /\ UNCHANGED <<inputVars, exitCode, projectID, topics, createVars,
                   displayVars, stdout, stderr, svcVars, callLog>>

----------------------------------------------------------------------------

Next ==
    \/ ShowHelp
    \/ ShowVersion
    \/ EnterLoop
    \/ UsageExit
    \/ LoopBreak
    \/ ConfigError
    \/ Parse
    \/ CreateNewClient
    \/ CreateTopicStep
    \/ CreateSubscriptionStep
    \/ CreateReturn
    \/ DisplayNewClient
    \/ ListTopics
    \/ ListSubscriptions
    \/ SubscriptionConfig
    \/ DisplayReturn

Spec == Init /\ [][Next]_vars

----------------------------------------------------------------------------
(* The subscription decoder on every token: PUBSUB_PROJECT1="p,t:<token>"  *)
(* against an empty service, followed until create returns.                *)

TokenEnv(tok) == <<"p", ",", "t", ":">> \o tok

InitDecode ==
    /\ environ \in {1 :> TokenEnv(tok) : tok \in Tokens}
    /\ help = FALSE
    /\ version = FALSE
    /\ debug = FALSE
    /\ svcTopics = {}
    /\ svcSubs = {}
    /\ InitLocals

NextDecode ==
    \/ EnterLoop
    \/ Parse
    \/ CreateNewClient
    \/ CreateTopicStep
    \/ CreateSubscriptionStep
    \/ CreateReturn

SpecDecode == InitDecode /\ [][NextDecode]_vars

----------------------------------------------------------------------------
(* Reading the history *)

Calls == DOMAIN callLog

IsCreate(e) == e.op \in {"CreateTopic", "CreateSubscription"}

\* an error happened while main handled variable n: a call failed, or the
\* parser rejected the value
ErrorWhileHandling(n) ==
    \/ \E k \in Calls : callLog[k].idx = n /\ ~callLog[k].ok
    \/ \E k \in DOMAIN stderr : stderr[k].idx = n

\* the process has ended with status 1
ExitedOne == pc = "exited" /\ exitCode = 1

\* everything a successful create call of the history made is in the service
CreatedBefore(k) ==
    \A j \in 1..(k-1) :
        /\ (callLog[j].op = "CreateTopic" /\ callLog[j].ok)
              => <<callLog[j].project, callLog[j].arg>> \in svcTopics
        /\ (callLog[j].op = "CreateSubscription" /\ callLog[j].ok)
              => [project |-> callLog[j].project, id |-> callLog[j].arg.id,
                  topic |-> callLog[j].arg.topic,
                  endpoint |-> callLog[j].arg.endpoint] \in svcSubs

\* the "Subscription: <id> - Endpoint: <endpoint>" lines of an output
SubscriptionLines(out) == SelectSeq(out, LAMBDA l : l.kind = "Subscription")

----------------------------------------------------------------------------
(* C1 *)

\* C1: every error, in whichever step it occurs, ends the process with
\* status 1: once an error has happened while handling variable n the
\* process has exited with status 1, and no call for a later variable is in
\* the history.
C1_EveryErrorExitsOne ==
    \A n \in 1..MaxEnvIdx :
        ErrorWhileHandling(n) =>
            /\ ExitedOne
            /\ \A k \in Calls : callLog[k].idx <= n

----------------------------------------------------------------------------
(* C3 *)

\* the number of subscriptions of the topics that displayResult has listed
RECURSIVE ListedSubscriptions(_)
ListedSubscriptions(k) ==
    IF k = 0 THEN 0
    ELSE ListedSubscriptions(k-1) +
         (IF callLog[k].op = "Subscriptions" /\ callLog[k].ok
          THEN Cardinality(SubsOf(callLog[k].project, callLog[k].arg))
          ELSE 0)

\* C3: when displayResult is between two topics or has returned, it has
\* printed exactly one Subscription line for every subscription of every
\* topic it listed: a topic with n subscriptions gave n lines.
C3_OneLinePerSubscription ==
    pc \in {"display_topic", "loop"} =>
        Len(SubscriptionLines(stdout)) = ListedSubscriptions(Len(callLog))

----------------------------------------------------------------------------
(* C4 *)

\* the variables are taken in increasing order from 1 and never past a
\* missing index
InOrderUntilFirstGap ==
    \A k \in Calls :
        /\ \A j \in 1..callLog[k].idx : j \in DOMAIN environ /\ environ[j] # <<>>
        /\ \A m \in 1..(k-1) : callLog[m].idx <= callLog[k].idx
        /\ k = 1 => callLog[k].idx = 1

\* C4: the variables are processed in increasing order from 1 up to the
\* first missing index, and a call for variable k is made only if every
\* variable before k is present and was processed without error.
C4_OnlyAfterErrorFreePredecessors ==
    /\ InOrderUntilFirstGap
    /\ \A k \in Calls : \A j \in 1..(callLog[k].idx - 1) : ~ErrorWhileHandling(j)

----------------------------------------------------------------------------
(* C5 *)

\* a value that is a project id only: not empty, and without a comma
OnlyProject(v) == v # <<>> /\ \A k \in DOMAIN v : v[k] # ","

\* main has read variable n and is past its parsing
PastParsing(n) == i = n /\ pc \notin {"start", "loop"}

\* C5: when main reaches a variable whose value has fewer than 2
\* comma-separated segments, the process exits with status 1 and a
\* configuration error, no call to the service is made for that variable or
\* a later one, and what earlier variables created is still in the service.
C5_ConfigErrorExitsBeforeAnyCall ==
    \A n \in 1..MaxEnvIdx :
        (PastParsing(n) /\ OnlyProject(Getenv(n))) =>
            /\ ExitedOne
            /\ stderr = <<[kind |-> "ConfigError", idx |-> n]>>
            /\ \A k \in Calls : callLog[k].idx < n
            /\ CreatedBefore(Len(callLog) + 1)

\* the second variable is rejected after the first one created a topic
C5_Witness ==
    /\ PastParsing(2)
    /\ OnlyProject(Getenv(2))
    /\ \E k \in Calls : callLog[k].op = "CreateTopic" /\ callLog[k].ok
    /\ svcTopics # {}

----------------------------------------------------------------------------
(* C6 *)

\* C6: when a call of create fails (client connect, topic create or
\* subscription create) the process exits with that call as its last one,
\* so no create and no delete follows, and every topic and subscription
\* created before, in this project and in earlier ones, is in the service.
C6_NoRollback ==
    \A k \in Calls :
        (callLog[k].by = "create" /\ ~callLog[k].ok) =>
            /\ k = Len(callLog)
            /\ pc = "exited"
            /\ CreatedBefore(k)

\* a subscription create fails in the second variable after creates succeeded
\* in the first variable and in the second
C6_Witness ==
    /\ pc = "exited"
    /\ callLog # <<>>
    /\ LET last == callLog[Len(callLog)]
       IN  /\ last.op = "CreateSubscription" /\ ~last.ok /\ last.idx = 2
           /\ \E k \in Calls : IsCreate(callLog[k]) /\ callLog[k].ok /\ callLog[k].idx = 1
           /\ \E k \in Calls : IsCreate(callLog[k]) /\ callLog[k].ok /\ callLog[k].idx = 2

----------------------------------------------------------------------------
(* C8 *)

\* the call that this step adds to the history
NewCall == callLog'[Len(callLog')]

\* this step asks the service to create an entity that it already holds
CreatesExisting ==
    /\ Len(callLog') = Len(callLog) + 1
    /\ \/ NewCall.op = "CreateTopic" /\ TopicExists(projectID, NewCall.arg)
       \/ NewCall.op = "CreateSubscription" /\ SubExists(projectID, NewCall.arg.id)

\* C8: every step that requests the creation of a topic or subscription the
\* service already holds ends the process with status 1 and a creation
\* error, and leaves the service as it was.
C8_NoUpsert ==
    [][CreatesExisting =>
          /\ ~NewCall.ok
          /\ pc' = "exited"
          /\ exitCode' = 1
          /\ stderr' = <<[kind |-> "CreateError", idx |-> i]>>
          /\ svcTopics' = svcTopics
          /\ svcSubs' = svcSubs]_vars

\* the second variable asked for a topic that the first one had created
C8_Witness ==
    /\ ExitedOne
    /\ callLog # <<>>
    /\ LET last == callLog[Len(callLog)]
       IN  /\ last.op = "CreateTopic" /\ ~last.ok /\ last.idx = 2
           /\ \E k \in Calls :
                 /\ callLog[k].op = "CreateTopic" /\ callLog[k].ok /\ callLog[k].idx = 1
                 /\ callLog[k].arg = last.arg /\ callLog[k].project = last.project

----------------------------------------------------------------------------
(* C9 *)

\* C9: in a run without -help and -version, if PUBSUB_PROJECT1 is not set
\* the process makes no call to the service and ends with status 1 after
\* printing the usage, whatever the later variables are.
C9_UsageWhenFirstAbsent ==
    (~help /\ ~version /\ 1 \notin DOMAIN environ) =>
        /\ callLog = <<>>
        /\ pc \in {"start", "loop", "exited"}
        /\ pc = "exited" => (exitCode = 1 /\ SelectSeq(stdout, LAMBDA l : l.kind # "debug") = <<UsageLine>>)

\* the process has ended although PUBSUB_PROJECT2 holds a valid value
C9_Witness ==
    /\ ~help /\ ~version
    /\ 1 \notin DOMAIN environ
    /\ 2 \in DOMAIN environ /\ environ[2] = EnvPull
    /\ pc = "exited"

----------------------------------------------------------------------------
(* C10 *)

CreatePcs == {"create_topic", "create_sub"}
DisplayPcs == {"display_list", "display_topic", "display_sub"}

\* C10: at most one client connection is open; an open connection belongs
\* to the step main is in (create or displayResult of variable i); and the
\* calls appear in the history variable by variable, those of create before
\* those of displayResult.
C10_ScopedConnection ==
    /\ Cardinality(clients) <= 1
    /\ \A c \in clients :
          /\ c[2] = i
          /\ c[1] = "create" => pc \in CreatePcs
          /\ c[1] = "displayResult" => pc \in DisplayPcs \cup {"exited"}
    /\ \A k \in Calls : \A j \in 1..(k-1) :
          /\ callLog[j].idx <= callLog[k].idx
          /\ (callLog[j].idx = callLog[k].idx /\ callLog[j].by = "displayResult")
                => callLog[k].by = "displayResult"

\* displayResult of the second variable holds the only open connection
C10_Witness ==
    /\ pc = "display_sub"
    /\ i = 2
    /\ clients = {DisplayClient}
    /\ \E k \in Calls : callLog[k].idx = 1 /\ callLog[k].by = "displayResult" /\ callLog[k].ok

----------------------------------------------------------------------------
(* C2 *)

\* the topic definitions of variable n, and the name and tokens of one
Definitions(n) == Rest(Split(Getenv(n), ","))
DefName(d) == Split(d, ":")[1]
DefTokens(d) == Rest(Split(d, ":"))

\* the subscriptions that the tokens of a definition of topic t ask for
Wanted(t, tokens) ==
    {[id |-> SubscriptionID(tokens[k]), topic |-> t, endpoint |-> EndpointOf(tokens[k])] :
        k \in DOMAIN tokens}

\* the subscriptions of topic t requested while handling variable n
Requested(n, t) ==
    {callLog[k].arg : k \in {j \in Calls : /\ callLog[j].idx = n
                                           /\ callLog[j].op = "CreateSubscription"
                                           /\ callLog[j].arg.topic = t}}

\* create has returned nil for variable n
CreateDone(n) == i = n /\ pc = "display_connect"

\* the run of PUBSUB_PROJECT1="p,t:a,t:b+h|9" alone (the shape of
\* "demo,orders:billing,orders:shipping+svc|8080") in which every call succeeds
SameTopicRun ==
    /\ environ = (1 :> EnvSameTopic)
    /\ ~help /\ ~version
    /\ pc = "exited"
    /\ exitCode = 0
    /\ \A k \in Calls : callLog[k].ok

LineA == SubscriptionLine(<<"a">>, <<>>)
LineB == SubscriptionLine(<<"b">>, HttpPrefix \o <<"h", ":", "9">>)

\* C2 as stated: when a variable names one topic in several definitions,
\* create requests the subscriptions of all of them, and for
\* "p,t:a,t:b+h|9" the service ends with pull subscription a and push
\* subscription b (http://h:9) on topic t and the reporter prints both.
C2_AllDefinitionsCreated ==
    /\ \A n \in 1..MaxEnvIdx : CreateDone(n) =>
          \A d \in DOMAIN Definitions(n) :
              Wanted(DefName(Definitions(n)[d]), DefTokens(Definitions(n)[d]))
                  \subseteq Requested(n, DefName(Definitions(n)[d]))
    /\ SameTopicRun =>
          /\ \E x \in svcSubs : x.id = <<"a">> /\ x.topic = <<"t">> /\ x.endpoint = <<>>
          /\ \E x \in svcSubs : x.id = <<"b">> /\ x.topic = <<"t">>
          /\ \E k \in DOMAIN stdout : stdout[k] = LineA
          /\ \E k \in DOMAIN stdout : stdout[k] = LineB

\* C2 amended: when a variable names one topic in several definitions, only
\* the last of them counts: create requests exactly the subscriptions of
\* the last definition of each topic, and for "p,t:a,t:b+h|9" the service
\* ends with topic t and push subscription b (http://h:9) alone, and the
\* reporter prints the line of b and no line of a.
C2_LastDefinitionWins ==
    /\ \A n \in 1..MaxEnvIdx : CreateDone(n) =>
          \A d \in DOMAIN Definitions(n) :
              (\A e \in DOMAIN Definitions(n) :
                    e > d => DefName(Definitions(n)[e]) # DefName(Definitions(n)[d]))
              => Requested(n, DefName(Definitions(n)[d]))
                   = Wanted(DefName(Definitions(n)[d]), DefTokens(Definitions(n)[d]))
    /\ SameTopicRun =>
          /\ svcTopics = {<<(<<"p">>), (<<"t">>)>>}
          /\ svcSubs = {[project |-> <<"p">>, id |-> <<"b">>, topic |-> <<"t">>,
                         endpoint |-> HttpPrefix \o <<"h", ":", "9">>]}
          /\ SubscriptionLines(stdout) = <<LineB>>

\* the run of "p,t:a,t:b+h|9" has ended with the line of b printed
C2_Witness == SameTopicRun /\ SubscriptionLines(stdout) = <<LineB>>

----------------------------------------------------------------------------
(* C7 *)

Positions(s, c) == {k \in 1..Len(s) : s[k] = c}
Least(S) == CHOOSE x \in S : \A y \in S : x <= y
Greatest(S) == CHOOSE x \in S : \A y \in S : x >= y

\* s without its leading and trailing spaces
Stripped(s) ==
    LET ns == {k \in 1..Len(s) : s[k] # " "}
    IN  IF ns = {} THEN <<>> ELSE SubSeq(s, Least(ns), Greatest(ns))

\* the text before the first "+" (all of it when there is none)
BeforeFirstPlus(tok) ==
    IF Positions(tok, "+") = {} THEN tok
    ELSE SubSeq(tok, 1, Least(Positions(tok, "+")) - 1)

\* everything after the first "+"
AfterFirstPlus(tok) == SubSeq(tok, Least(Positions(tok, "+")) + 1, Len(tok))

\* the text between the first "+" and the next "+" (or the end of the token)
UpToNextPlus(tok) ==
    LET first == Least(Positions(tok, "+"))
        later == Positions(tok, "+") \ {first}
    IN  SubSeq(tok, first + 1, IF later = {} THEN Len(tok) ELSE Least(later) - 1)

\* s with its first "|" turned into ":"
FirstBarToColon(s) ==
    [k \in 1..Len(s) |->
        IF s[k] = "|" /\ (\A j \in 1..(k-1) : s[j] # "|") THEN ":" ELSE s[k]]

\* the token of PUBSUB_PROJECT1="p,t:<token>"
TokenOfEnv == SubSeq(environ[1], 5, Len(environ[1]))

\* the subscription requested for the token is the one that the text
\* part(tok) after the first "+" describes
DecodedAs(req, tok, part(_)) ==
    /\ req.id = Stripped(BeforeFirstPlus(tok))
    /\ (Positions(tok, "+") # {} /\ Stripped(part(tok)) # <<>>)
          => req.endpoint = HttpPrefix \o FirstBarToColon(Stripped(part(tok)))
    /\ Positions(tok, "+") = {} => req.endpoint = <<>>

\* C7 as stated: the subscription requested for a token has as id the
\* trimmed text before the first "+"; when the trimmed text after that "+"
\* is not empty it is a push subscription with endpoint "http://" and that
\* text with its first "|" turned into ":"; when the token has no "+" it is
\* a pull subscription (empty endpoint).
C7_PushOrPull ==
    \A k \in Calls :
        callLog[k].op = "CreateSubscription" =>
            DecodedAs(callLog[k].arg, TokenOfEnv, AfterFirstPlus)

\* C7 amended: as C7, with the part after the first "+" ending at the next
\* "+": the endpoint is made of the trimmed text between the first "+" and
\* the second "+" (or the end of the token), and what follows a second "+"
\* is ignored.
C7_PushOrPullUpToNextPlus ==
    \A k \in Calls :
        callLog[k].op = "CreateSubscription" =>
            DecodedAs(callLog[k].arg, TokenOfEnv, UpToNextPlus)

\* the token "a+h|+" gave the push subscription a with endpoint http://h:
C7_Witness ==
    /\ TokenOfEnv = <<"a", "+", "h", "|", "+">>
    /\ \E x \in svcSubs :
          x.id = <<"a">> /\ x.endpoint = HttpPrefix \o <<"h", ":">>

====
